---- MODULE Spec2Model ----
(***************************************************************************)
(* Model of the morpho-monitor execution extension (src/main.rs).          *)
(*                                                                         *)
(* The program consumes chain notifications one at a time.  For the        *)
(* reverted chain of a notification it deletes rows from three SQLite      *)
(* tables; for the committed chain it decodes the Morpho logs and runs one *)
(* SQL statement (two for Borrow) per decoded event, then queries the      *)
(* positions at risk and sends FinishedHeight for the tip.  Every SQL      *)
(* statement runs in autocommit mode on the file database, so the ledger   *)
(* after each statement is a state of the program; an error returned by a  *)
(* statement ends morpho_monitor.                                          *)
(*                                                                         *)
(* TEXT columns hold decimal text.  Text is modelled as a sequence of      *)
(* ASCII codes, so that to_string, CAST(.. AS INTEGER) and the text        *)
(* comparison of the risk query are computed as SQLite and Rust compute    *)
(* them, on numbers kept as decimal digits: a U256 amount can exceed the   *)
(* 64 bits of SQLite's INTEGER.                                            *)
(***************************************************************************)
EXTENDS Integers, Sequences, FiniteSets

(***************************************************************************)
(* Bounds of the model.                                                    *)
(***************************************************************************)
MaxBlock == 2
MaxLogs == 2
MaxNotifications == 2
MaxRows == 2
MaxChainLogs == 3

(***************************************************************************)
(* Numbers.  A U256 of an event and an INTEGER of SQLite are kept as their *)
(* decimal digits, most significant first, so that values beyond 2^63 and  *)
(* SQLite's arithmetic on them are computed digit by digit.                *)
(***************************************************************************)
RECURSIVE Dec(_)
Dec(n) == IF n < 10 THEN <<n>> ELSE Dec(n \div 10) \o <<n % 10>>

\* mant * 10^exp
Wei(mant, exp) == IF mant = 0 THEN Dec(0) ELSE Dec(mant) \o [i \in 1..exp |-> 0]

Strip(d) ==
    IF \A i \in 1..Len(d) : d[i] = 0 THEN (IF d = <<>> THEN d ELSE Dec(0))
    ELSE SubSeq(d, CHOOSE i \in 1..Len(d) : d[i] # 0 /\ \A j \in 1..(i - 1) : d[j] = 0, Len(d))

Pad(d, n) == [i \in 1..(n - Len(d)) |-> 0] \o d
Longest(a, b) == IF Len(a) > Len(b) THEN Len(a) ELSE Len(b)

Less(a, b) ==
    \/ Len(a) < Len(b)
    \/ /\ Len(a) = Len(b)
       /\ \E i \in 1..Len(a) : a[i] < b[i] /\ \A j \in 1..(i - 1) : a[j] = b[j]

\* Sum of two digit sequences of one length and a carry, one digit longer:
\* the right half is added first and hands its carry to the left half.
RECURSIVE AddPadded(_, _, _)
AddPadded(a, b, carry) ==
    IF a = <<>> THEN <<carry>>
    ELSE IF Len(a) = 1 THEN <<(a[1] + b[1] + carry) \div 10, (a[1] + b[1] + carry) % 10>>
    ELSE LET half == Len(a) \div 2
             low == AddPadded(SubSeq(a, half + 1, Len(a)), SubSeq(b, half + 1, Len(b)), carry)
         IN  IF low[1] = 0
             THEN AddPadded(SubSeq(a, 1, half), SubSeq(b, 1, half), 0) \o Tail(low)
             ELSE AddPadded(SubSeq(a, 1, half), SubSeq(b, 1, half), low[1]) \o Tail(low)
Plus(a, b) ==
    IF Len(a) < Len(b) THEN Strip(AddPadded(Pad(a, Len(b)), b, 0))
    ELSE Strip(AddPadded(a, Pad(b, Len(a)), 0))

\* Difference of two digit sequences of one length less a borrow, preceded
\* by the borrow it leaves.
RECURSIVE SubPadded(_, _, _)
SubPadded(a, b, borrow) ==
    IF a = <<>> THEN <<borrow>>
    ELSE IF Len(a) = 1
    THEN <<IF a[1] - b[1] - borrow < 0 THEN 1 ELSE 0, (a[1] - b[1] - borrow + 10) % 10>>
    ELSE LET half == Len(a) \div 2
             low == SubPadded(SubSeq(a, half + 1, Len(a)), SubSeq(b, half + 1, Len(b)), borrow)
         IN  IF low[1] = 0
             THEN SubPadded(SubSeq(a, 1, half), SubSeq(b, 1, half), 0) \o Tail(low)
             ELSE SubPadded(SubSeq(a, 1, half), SubSeq(b, 1, half), 1) \o Tail(low)
\* a - b for a >= b
Monus(a, b) == IF Len(b) <= Len(a) THEN Strip(Tail(SubPadded(a, Pad(b, Len(a)), 0))) ELSE Dec(0)

\* Signed numbers: sign and magnitude.
Signed(neg, mag) == [neg |-> neg /\ mag # Dec(0), mag |-> mag]
Positive(mag) == Signed(FALSE, mag)
Negative(mag) == Signed(TRUE, mag)
SignedAdd(x, y) ==
    IF x.neg = y.neg THEN Signed(x.neg, Plus(x.mag, y.mag))
    ELSE IF Less(x.mag, y.mag) THEN Signed(y.neg, Monus(y.mag, x.mag))
    ELSE Signed(x.neg, Monus(x.mag, y.mag))
SignedSub(x, y) == SignedAdd(x, Signed(~y.neg, y.mag))

\* The range of a 64-bit INTEGER: -2^63 .. 2^63 - 1.
Int64Max == <<9, 2, 2, 3, 3, 7, 2, 0, 3, 6, 8, 5, 4, 7, 7, 5, 8, 0, 7>>
Int64Min == Plus(Int64Max, Dec(1))
InInt64(x) == IF x.neg THEN ~Less(Int64Min, x.mag) ELSE ~Less(Int64Max, x.mag)

(***************************************************************************)
(* Decimal text: a sequence of ASCII codes.                                *)
(***************************************************************************)
Digit(d) == 48 + d
Minus == Digit(0) - 3
Dot == Digit(0) - 2
PlusSign == Digit(0) - 5
LetterE == Digit(0) + 53

\* Display of an unsigned integer (U256::to_string).
to_string(v) == [i \in 1..Len(v) |-> Digit(v[i])]

\* An INTEGER stored in a TEXT column.
IntegerToText(x) == IF x.neg THEN <<Minus>> \o to_string(x.mag) ELSE to_string(x.mag)

\* The digits a text starts with.
DigitPrefix(t) ==
    LET digits == {i \in 1..Len(t) : t[i] >= Digit(0) /\ t[i] <= Digit(9)}
        n == IF \A i \in 1..Len(t) : i \in digits THEN Len(t)
             ELSE (CHOOSE i \in 1..Len(t) : i \notin digits /\ \A j \in 1..(i - 1) : j \in digits) - 1
    IN  <<>> \o [i \in 1..n |-> t[i] - Digit(0)]

\* The integer a text starts with (0 when there is none).
IntegerPrefix(t) ==
    LET neg == t # <<>> /\ t[1] = Minus
        ds == DigitPrefix(IF neg THEN Tail(t) ELSE t)
    IN  Signed(neg, IF ds = <<>> THEN Dec(0) ELSE Strip(ds))

\* CAST(text AS INTEGER): the integer prefix, clamped to the 64-bit range.
CastInteger(t) ==
    LET x == IntegerPrefix(t)
    IN  IF InInt64(x) THEN x
        ELSE IF x.neg THEN Negative(Int64Min) ELSE Positive(Int64Max)

\* Comparison of two TEXT values (memcmp, then length).
RECURSIVE TextGreater(_, _)
TextGreater(a, b) ==
    IF a = <<>> THEN FALSE
    ELSE IF b = <<>> THEN TRUE
    ELSE IF a[1] # b[1] THEN a[1] > b[1]
    ELSE TextGreater(Tail(a), Tail(b))

(***************************************************************************)
(* f64.  calculate_position_metrics converts its u128 arguments to f64 and *)
(* multiplies and divides them there.  A double is kept as its 53-bit      *)
(* mantissa (bits, most significant first) and the power of two of the     *)
(* mantissa's last bit; every operation rounds to nearest, ties to even,   *)
(* as the hardware does.  All values here are non-negative, and the        *)
(* exponents stay inside the range of a double: the arguments are below    *)
(* 2^128.                                                                  *)
(***************************************************************************)
\* Binary numbers: bits, most significant first, zero being <<>>.  The
\* operators below avoid deep recursion: sums, products and quotients are
\* computed by halves.
BitStrip(b) ==
    IF \A i \in 1..Len(b) : b[i] = 0 THEN <<>>
    ELSE SubSeq(b, CHOOSE i \in 1..Len(b) : b[i] = 1 /\ \A j \in 1..(i - 1) : b[j] = 0, Len(b))

BitLess(a, b) ==
    \/ Len(a) < Len(b)
    \/ /\ Len(a) = Len(b)
       /\ \E i \in 1..Len(a) : a[i] < b[i] /\ \A j \in 1..(i - 1) : a[j] = b[j]

\* Sum of two bit sequences of one length and a carry, one bit longer: the
\* right half is added first and hands its carry to the left half.
RECURSIVE BitAddPadded(_, _, _)
BitAddPadded(a, b, carry) ==
    IF a = <<>> THEN <<carry>>
    ELSE IF Len(a) = 1 THEN <<(a[1] + b[1] + carry) \div 2, (a[1] + b[1] + carry) % 2>>
    ELSE LET half == Len(a) \div 2
             low == BitAddPadded(SubSeq(a, half + 1, Len(a)), SubSeq(b, half + 1, Len(b)), carry)
         IN  IF low[1] = 1
             THEN BitAddPadded(SubSeq(a, 1, half), SubSeq(b, 1, half), 1) \o Tail(low)
             ELSE BitAddPadded(SubSeq(a, 1, half), SubSeq(b, 1, half), 0) \o Tail(low)
BitPlus(a, b) == BitStrip(BitAddPadded(Pad(a, Longest(a, b)), Pad(b, Longest(a, b)), 0))

\* Difference of two bit sequences of one length less a borrow, preceded by
\* the borrow it leaves.
RECURSIVE BitSubPadded(_, _, _)
BitSubPadded(a, b, borrow) ==
    IF a = <<>> THEN <<borrow>>
    ELSE IF Len(a) = 1
    THEN <<IF a[1] - b[1] - borrow < 0 THEN 1 ELSE 0, (a[1] - b[1] - borrow + 2) % 2>>
    ELSE LET half == Len(a) \div 2
             low == BitSubPadded(SubSeq(a, half + 1, Len(a)), SubSeq(b, half + 1, Len(b)), borrow)
         IN  IF low[1] = 1
             THEN BitSubPadded(SubSeq(a, 1, half), SubSeq(b, 1, half), 1) \o Tail(low)
             ELSE BitSubPadded(SubSeq(a, 1, half), SubSeq(b, 1, half), 0) \o Tail(low)
\* a - b for a >= b
BitMonus(a, b) == BitStrip(Tail(BitSubPadded(Pad(a, Longest(a, b)), Pad(b, Longest(a, b)), 0)))

\* a * 2^n
BitShift(a, n) == IF a = <<>> THEN <<>> ELSE a \o [i \in 1..n |-> 0]

RECURSIVE BitTimes(_, _)
BitTimes(a, b) ==
    IF b = <<>> \/ a = <<>> THEN <<>>
    ELSE IF Len(b) = 1 THEN (IF b[1] = 1 THEN a ELSE <<>>)
    ELSE LET half == Len(b) \div 2
             high == BitTimes(a, SubSeq(b, 1, half))
             low == BitTimes(a, SubSeq(b, half + 1, Len(b)))
         IN  BitPlus(BitShift(BitStrip(high), Len(b) - half), BitStrip(low))

\* 10^n in bits
RECURSIVE BitPowerOfTen(_)
BitPowerOfTen(n) ==
    IF n = 0 THEN <<1>>
    ELSE IF n = 1 THEN <<1, 0, 1, 0>>
    ELSE BitTimes(BitPowerOfTen(n \div 2), BitPowerOfTen(n - n \div 2))

\* The bits of a number given by its decimal digits.
RECURSIVE Bits(_)
Bits(v) ==
    IF Len(v) = 1 THEN BitStrip(<<v[1] \div 8, (v[1] \div 4) % 2, (v[1] \div 2) % 2, v[1] % 2>>)
    ELSE LET half == Len(v) \div 2
             high == Bits(SubSeq(v, 1, half))
             low == Bits(SubSeq(v, half + 1, Len(v)))
         IN  IF high = <<>> THEN low
             ELSE BitPlus(BitTimes(high, BitPowerOfTen(Len(v) - half)), low)

\* Quotient of n by d with as many bits as n, and the remainder, r being the
\* remainder brought in from the left.
RECURSIVE BitDivMod(_, _, _)
BitDivMod(n, d, r) ==
    IF n = <<>> THEN [q |-> <<>>, r |-> r]
    ELSE IF Len(n) = 1
    THEN LET shifted == BitStrip(Append(r, n[1]))
         IN  IF BitLess(shifted, d) THEN [q |-> <<0>>, r |-> shifted]
             ELSE [q |-> <<1>>, r |-> BitMonus(shifted, d)]
    ELSE LET half == Len(n) \div 2
             high == BitDivMod(SubSeq(n, 1, half), d, r)
             low == BitDivMod(SubSeq(n, half + 1, Len(n)), d, high.r)
         IN  [q |-> high.q \o low.q, r |-> low.r]

MantissaBits == 53
Special(kind) == [kind |-> kind, m |-> <<>>, e |-> 0]
NaN == Special("nan")
Infinity == Special("inf")
Zero == Special("zero")

\* The double nearest to bits * 2^e (plus a fraction of the last bit when
\* sticky), ties to even.  Without sticky the bits may be fewer than 53.
RoundToF64(bits, e, sticky) ==
    LET len == Len(bits)
        head == SubSeq(bits, 1, MantissaBits)
        rest == sticky \/ \E i \in (MantissaBits + 2)..len : bits[i] = 1
        up == bits[MantissaBits + 1] = 1 /\ (rest \/ head[MantissaBits] = 1)
        r == IF up THEN BitPlus(head, <<1>>) ELSE head
    IN  IF len <= MantissaBits
        THEN [kind |-> "num", m |-> bits \o [i \in 1..(MantissaBits - len) |-> 0],
              e |-> e - (MantissaBits - len)]
        ELSE IF Len(r) > MantissaBits
        THEN [kind |-> "num", m |-> SubSeq(r, 1, MantissaBits), e |-> e + (len - MantissaBits) + 1]
        ELSE [kind |-> "num", m |-> r, e |-> e + (len - MantissaBits)]

\* v as f64
as_f64(v) == IF v = Dec(0) THEN Zero ELSE RoundToF64(Bits(v), 0, FALSE)

\* x * y
f64_mul(x, y) ==
    IF x.kind = "nan" \/ y.kind = "nan" THEN NaN
    ELSE IF {x.kind, y.kind} = {"zero", "inf"} THEN NaN
    ELSE IF x.kind = "inf" \/ y.kind = "inf" THEN Infinity
    ELSE IF x.kind = "zero" \/ y.kind = "zero" THEN Zero
    ELSE RoundToF64(BitTimes(x.m, y.m), x.e + y.e, FALSE)

\* x / y
f64_div(x, y) ==
    IF x.kind = "nan" \/ y.kind = "nan" THEN NaN
    ELSE IF x.kind = y.kind /\ x.kind # "num" THEN NaN
    ELSE IF x.kind = "inf" \/ y.kind = "zero" THEN Infinity
    ELSE IF x.kind = "zero" \/ y.kind = "inf" THEN Zero
    ELSE LET d == BitDivMod(BitShift(x.m, MantissaBits + 2), y.m, <<>>)
         IN  RoundToF64(BitStrip(d.q), x.e - (MantissaBits + 2) - y.e, d.r # <<>>)

\* x >= y
f64_ge(x, y) ==
    IF y.kind = "nan" \/ x.kind = "nan" THEN FALSE
    ELSE IF x.kind = "inf" \/ y.kind = "zero" THEN TRUE
    ELSE IF y.kind = "inf" \/ x.kind = "zero" THEN FALSE
    ELSE x.e > y.e \/ (x.e = y.e /\ ~BitLess(x.m, y.m))

\* The arithmetic of SQLite's REAL.  A REAL is an IEEE double; the text
\* conversions of SQLite 3.40 (sqlite3AtoF, and "%!.15g" of its printf)
\* compute in the C long double of x86-64, which has 64 bits.  An integer is
\* kept in decimal digits, a floating-point number as [m, e], m * 2^e, with
\* m of exactly `bits` bits.
\* d \div 2: a digit takes ten from an odd digit before it.
Half(d) ==
    Strip(<<d[1] \div 2>> \o [i \in 1..(Len(d) - 1) |-> (d[i + 1] + 10 * (d[i] % 2)) \div 2])
\* 2 * d: a digit takes one from a digit of five or more after it.
Double(d) ==
    Strip(<<IF d[1] >= 5 THEN 1 ELSE 0>>
          \o [i \in 1..Len(d) |-> ((2 * d[i]) % 10) + (IF i < Len(d) /\ d[i + 1] >= 5 THEN 1 ELSE 0)])

\* d \div 2^k and d * 2^k, by halves of k; zero stays zero.
RECURSIVE HalvedBy(_, _)
HalvedBy(d, k) ==
    IF d = Dec(0) \/ k = 0 THEN d
    ELSE IF k = 1 THEN Half(d)
    ELSE HalvedBy(HalvedBy(d, k \div 2), k - k \div 2)
RECURSIVE DoubledBy(_, _)
DoubledBy(d, k) ==
    IF d = Dec(0) \/ k = 0 THEN d
    ELSE IF k = 1 THEN Double(d)
    ELSE DoubledBy(DoubledBy(d, k \div 2), k - k \div 2)

\* a * b, by halves of the digits of b; a digit of b multiplies every digit
\* of a and the carries are taken after.
RECURSIVE Times(_, _)
Times(a, b) ==
    IF a = Dec(0) \/ \A i \in 1..Len(b) : b[i] = 0 THEN Dec(0)
    ELSE IF Len(b) = 1
    THEN Strip(AddPadded(<<>> \o [i \in 1..Len(a) |-> a[i] * b[1]],
                         <<>> \o [i \in 1..Len(a) |-> 0], 0))
    ELSE LET h == Len(b) \div 2
         IN  Plus(Times(a, SubSeq(b, 1, h)) \o [i \in 1..(Len(b) - h) |-> 0],
                  Times(a, SubSeq(b, h + 1, Len(b))))

\* The number of bits of d > 0.  A number of n digits has more than
\* 3.321 * (n - 1) bits, and at most five more.
BitLength(d) ==
    LET Lead(top) == IF Len(top) = 1 THEN top[1] ELSE 10 * top[1] + top[2]
        Length(least, lead) ==
            least + (IF lead >= 16 THEN 5 ELSE IF lead >= 8 THEN 4 ELSE IF lead >= 4 THEN 3
                     ELSE IF lead >= 2 THEN 2 ELSE 1)
        Measured(least) == Length(least, Lead(HalvedBy(d, least)))
    IN  Measured(((Len(d) - 1) * 3321) \div 1000)

\* A floating-point number is [m, e], m * 2^e.  Float is d * 2^e with d
\* rounded to `bits` bits, to nearest, ties to even: of the k bits dropped,
\* the first (guard) and the rest (sticky) decide; with none to drop the
\* guard is zero.
Float(d, e, bits) ==
    LET Kept(k) ==
            IF k <= 0 THEN [k |-> 0, kept |-> Double(d)]
            ELSE [k |-> k, kept |-> HalvedBy(d, k - 1)]
        Guarded(s) == [k |-> s.k, kept |-> s.kept, m |-> Half(s.kept)]
        Rounded(s) ==
            [k |-> s.k,
             m |-> IF /\ s.kept[Len(s.kept)] % 2 = 1
                      /\ (s.m[Len(s.m)] % 2 = 1 \/ DoubledBy(s.kept, s.k - 1) # d)
                   THEN Plus(s.m, Dec(1)) ELSE s.m]
        Carried(s) ==
            IF HalvedBy(s.m, bits) # Dec(0) THEN [m |-> Half(s.m), e |-> e + s.k + 1]
            ELSE [m |-> s.m, e |-> e + s.k]
    IN  IF d = Dec(0) THEN [m |-> d, e |-> 0]
        ELSE IF Len(d) <= (bits * 3) \div 10 THEN [m |-> d, e |-> e]
        ELSE Carried(Rounded(Guarded(Kept(BitLength(d) - bits))))

\* x < y, for floating-point numbers above zero.
FloatLess(x, y) ==
    IF x.e < y.e THEN Less(x.m, DoubledBy(y.m, y.e - x.e))
    ELSE Less(DoubledBy(x.m, x.e - y.e), y.m)

\* The REAL (IEEE double) nearest to the integer x, as the integer it is.
RealOf(x) ==
    LET Value(f) == IF f.e <= 0 THEN x ELSE Signed(x.neg, DoubledBy(f.m, f.e))
    IN  Value(Float(x.mag, 0, 53))

\* x * y in long double.
LongMul(x, y) == Float(Times(x.m, y.m), x.e + y.e, 64)

\* k more bits of the quotient st.q, by halves of k: the remainder st.r is
\* doubled and the divisor y is taken from it when it fits.
RECURSIVE Divided(_, _, _)
Divided(st, y, k) ==
    IF st.r = Dec(0) \/ k = 0 THEN [q |-> DoubledBy(st.q, k), r |-> st.r]
    ELSE IF k = 1
         THEN IF Less(Double(st.r), y)
              THEN [q |-> Double(st.q), r |-> Double(st.r)]
              ELSE [q |-> Plus(Double(st.q), Dec(1)), r |-> Monus(Double(st.r), y)]
    ELSE Divided(Divided(st, y, k \div 2), y, k - k \div 2)

\* x / y in long double, for x and y above zero: the shorter of the two is
\* brought to the length of the other; 67 bits of their quotient and one
\* more for a remainder are rounded.
LongDiv(x, y) ==
    LET Aligned(shift) ==
            [a |-> IF shift < 0 THEN DoubledBy(x.m, 0 - shift) ELSE x.m,
             b |-> IF shift < 0 THEN y.m ELSE DoubledBy(y.m, shift),
             e |-> x.e - y.e + shift]
        First(s) ==
            [st |-> IF Less(s.a, s.b) THEN [q |-> Dec(0), r |-> s.a]
                    ELSE [q |-> Dec(1), r |-> Monus(s.a, s.b)],
             b |-> s.b, e |-> s.e]
        Quotient(s) == [st |-> Divided(s.st, s.b, 66), e |-> s.e]
        Sticky(s) ==
            Float(IF s.st.r = Dec(0) THEN Double(s.st.q) ELSE Plus(Double(s.st.q), Dec(1)),
                  s.e - 67, 64)
    IN  Sticky(Quotient(First(Aligned(BitLength(x.m) - BitLength(y.m)))))

\* sqlite3Pow10: 10^E in long double, by squaring; called with x = 10, r = 1.
RECURSIVE sqlite3Pow10(_, _, _)
sqlite3Pow10(E, x, r) ==
    IF E = 0 \/ x.m = <<>> \/ r.m = <<>> THEN r
    ELSE sqlite3Pow10(E \div 2, LongMul(x, x), IF E % 2 = 1 THEN LongMul(r, x) ELSE r)

\* sqlite3AtoF of the digits z of an integer: the double SQLite makes of a
\* numeric text.  The digits are taken until s >= (LARGEST_INT64 - 9) / 10,
\* which the first 18 or 19 reach, and the rest only counted; s is
\* multiplied by ten while it is under LARGEST_INT64 / 10 and digits are
\* left (once at most, after the first bound); s * 10^e is computed in long
\* double (it is s itself when no digit is left) and stored in a double.
sqlite3AtoF(z) ==
    LET Prefix(n) == [s |-> SubSeq(z, 1, n), e |-> Len(z) - n]
        Reduced(p) ==
            IF p.e > 0 /\ Less(p.s, SubSeq(Int64Max, 1, 18))
            THEN [s |-> p.s \o <<0>>, e |-> p.e - 1]
            ELSE p
        Result(p) ==
            LongMul([m |-> p.s, e |-> 0],
                    sqlite3Pow10(p.e, [m |-> Dec(10), e |-> 0], [m |-> Dec(1), e |-> 0]))
        Narrowed(f) == Float(f.m, f.e, 53)
        Value(f) == DoubledBy(f.m, f.e)
    IN  Value(Narrowed(Result(Reduced(Prefix(
            IF /\ Len(z) >= 18
               /\ ~Less(SubSeq(z, 1, 18), SubSeq(Monus(Int64Max, Dec(9)), 1, 18))
            THEN 18
            ELSE IF Len(z) < 19 THEN Len(z) ELSE 19)))))

\* The normalisation of printf's etGENERIC: scale, a power of ten in long
\* double, is multiplied by 1e10 and then by 10 while n >= the product, and
\* exp counts the tens.
RECURSIVE Normalized(_, _, _, _)
Normalized(n, scale, exp, step) ==
    LET Compared(next) ==
            IF ~FloatLess(n, next) THEN Normalized(n, next, exp + step, step)
            ELSE IF step = 10 THEN Normalized(n, scale, exp, 1)
            ELSE [scale |-> scale, exp |-> exp]
    IN  Compared(LongMul(scale, [m |-> Wei(1, step), e |-> 0]))

\* et_getdigit, k times by halves of k: the integer part of val is the next
\* digit, and val becomes (val - digit) * 10.0 in long double.
RECURSIVE et_getdigit(_, _)
et_getdigit(st, k) ==
    LET Integral(val) == [digit |-> HalvedBy(val.m, 0 - val.e), val |-> val]
        Rest(s) ==
            [digit |-> s.digit, e |-> s.val.e,
             rest |-> Monus(s.val.m, DoubledBy(s.digit, 0 - s.val.e))]
        Advanced(s) ==
            [digits |-> st.digits \o s.digit,
             val |-> Float(IF s.rest = Dec(0) THEN s.rest ELSE s.rest \o <<0>>, s.e, 64)]
    IN  IF st.val.m = <<>> \/ k = 0 THEN st
        ELSE IF k = 1 THEN Advanced(Rest(Integral(st.val)))
        ELSE et_getdigit(et_getdigit(st, k \div 2), k - k \div 2)

RECURSIVE StripZeros(_)
StripZeros(d) == IF Len(d) > 1 /\ d[Len(d)] = 0 THEN StripZeros(SubSeq(d, 1, Len(d) - 1)) ELSE d

\* A REAL stored in a TEXT column is printed by "%!.15g" of SQLite's printf,
\* in long double: the value is divided by the power of ten under it, the
\* rounder arRound[4] * 1.0e-10 (a double, 5e-15) is added, a value that
\* reached 10 is multiplied by 0.1 (a double), and 15 digits are taken from
\* it; they are laid out as d.ddde+XX when exp > 14, the zeros they end with
\* are removed and one digit is kept after the point.
RealToText(real) ==
    LET rounder == [m |-> <<1, 2, 9, 8, 0, 7, 4, 2, 1, 4, 6, 3, 3, 7, 0, 7, 1, 1, 0, 4>>,
                    e |-> 0 - 111]
        tenth == [m |-> <<1, 4, 7, 5, 7, 3, 9, 5, 2, 5, 8, 9, 6, 7, 6, 4, 2, 1, 1, 2>>,
                  e |-> 0 - 67]
        Measured(n) == [n |-> n, norm |-> Normalized(n, [m |-> Dec(1), e |-> 0], 0, 10)]
        Scaled(s) == [exp |-> s.norm.exp, val |-> LongDiv(s.n, s.norm.scale)]
        Added(s) ==
            [exp |-> s.exp,
             val |-> Float(Plus(DoubledBy(s.val.m, s.val.e - rounder.e), rounder.m),
                           rounder.e, 64)]
        Rounded(s) ==
            IF FloatLess(s.val, [m |-> Dec(10), e |-> 0]) THEN s
            ELSE [exp |-> s.exp + 1, val |-> LongMul(s.val, tenth)]
        Digits(s) ==
            [exp |-> s.exp, whole |-> IF s.exp > 14 THEN 1 ELSE s.exp + 1,
             ds |-> et_getdigit([digits |-> <<>>, val |-> s.val], 15).digits]
        Layout(s) ==
            (IF real.neg THEN <<Minus>> ELSE <<>>)
                \o to_string(SubSeq(s.ds, 1, s.whole)) \o <<Dot>>
                \o to_string(IF s.whole = 15 THEN Dec(0)
                             ELSE StripZeros(SubSeq(s.ds, s.whole + 1, 15)))
                \o (IF s.exp > 14 THEN <<LetterE, PlusSign>> \o to_string(Dec(s.exp)) ELSE <<>>)
    IN  IF real.mag = Dec(0) THEN <<Digit(0), Dot, Digit(0)>>
        ELSE Layout(Digits(Rounded(Added(Scaled(Measured(Float(real.mag, 0, 64)))))))

(***************************************************************************)
(* calculate_position_metrics and the log line check_positions writes.     *)
(***************************************************************************)
U128Max == <<3, 4, 0, 2, 8, 2, 3, 6, 6, 9, 2, 0, 9, 3, 8, 4, 6, 3, 4, 6,
             3, 3, 7, 4, 6, 0, 7, 4, 3, 1, 7, 6, 8, 2, 1, 1, 4, 5, 5>>

\* str::parse::<u128>: an optional '+', then digits only, at most U128Max.
parse_u128(t) ==
    LET body == IF t # <<>> /\ t[1] = PlusSign THEN Tail(t) ELSE t
        ds == DigitPrefix(body)
    IN  IF body = <<>> \/ Len(ds) # Len(body) \/ Less(U128Max, Strip(ds))
        THEN [ok |-> FALSE, value |-> Dec(0)]
        ELSE [ok |-> TRUE, value |-> Strip(ds)]

\* The f64 literals 0.95 and 0.98 are the doubles nearest to 95/100 and 98/100.
WARNING_THRESHOLD == f64_div(as_f64(Dec(95)), as_f64(Dec(100)))
HIGH_RISK_THRESHOLD == f64_div(as_f64(Dec(98)), as_f64(Dec(100)))
WAD == Wei(1, 18)
ORACLE_PRICE_SCALE == Wei(1, 36)

calculate_position_metrics(borrow_shares, total_borrow_assets, total_borrow_shares, collateral, price, lltv) ==
    LET parsed == <<parse_u128(borrow_shares), parse_u128(total_borrow_assets),
                    parse_u128(total_borrow_shares), parse_u128(collateral),
                    parse_u128(price), parse_u128(lltv)>>
        borrowed == f64_div(f64_mul(as_f64(parsed[1].value), as_f64(parsed[2].value)),
                            as_f64(parsed[3].value))
        collateral_value == f64_div(f64_mul(as_f64(parsed[4].value), as_f64(parsed[5].value)),
                                    as_f64(ORACLE_PRICE_SCALE))
        max_borrow == f64_div(f64_mul(collateral_value, as_f64(parsed[6].value)), as_f64(WAD))
    IN  IF \E i \in 1..6 : ~parsed[i].ok
        THEN [ok |-> FALSE, is_healthy |-> FALSE, ltv_ratio |-> NaN]
        ELSE [ok |-> TRUE, is_healthy |-> f64_ge(max_borrow, borrowed),
              ltv_ratio |-> f64_div(borrowed, collateral_value)]

\* The body of check_positions' loop for one row of the query: whether the
\* metrics were computed, and the message logged ("none" when nothing is).
EvaluatePosition(row) ==
    LET metrics == calculate_position_metrics(row.borrow_shares, row.total_borrow_assets,
                                              row.total_borrow_shares, row.collateral,
                                              row.price, row.lltv)
    IN  [ok |-> metrics.ok,
         ltv |-> metrics.ltv_ratio,
         message |-> IF ~metrics.ok THEN "none"
                     ELSE IF ~metrics.is_healthy THEN "LIQUIDATABLE POSITION"
                     ELSE IF f64_ge(metrics.ltv_ratio, HIGH_RISK_THRESHOLD)
                     THEN "HIGH RISK POSITION"
                     ELSE IF f64_ge(metrics.ltv_ratio, WARNING_THRESHOLD) THEN "RISK WARNING"
                     ELSE "none"]

\* Rows check_positions' query can return: a collateral of 1000 at price
\* 10^36 with 500, 900, 940, 960 or 985 borrowed, under a liquidation LTV of
\* 0.8 or 0.99; one token of collateral with 0.8 token and one wei borrowed;
\* markets without borrow shares, a price of zero, and borrow shares that an
\* overflowed addition left as the text of a REAL.
RiskRow(borrow_shares, total_borrow_assets, total_borrow_shares, collateral, price, lltv) ==
    [market_id |-> "M1", borrower |-> "B1", oracle |-> "O1",
     borrow_shares |-> borrow_shares,
     collateral |-> to_string(collateral),
     total_borrow_assets |-> to_string(total_borrow_assets),
     total_borrow_shares |-> to_string(total_borrow_shares),
     lltv |-> to_string(lltv), price |-> to_string(price)]
RiskRows ==
    {RiskRow(to_string(Dec(500)), Dec(1000), Dec(1000), Dec(1000), Wei(1, 36), Wei(8, 17)),
     RiskRow(to_string(Dec(900)), Dec(1000), Dec(1000), Dec(1000), Wei(1, 36), Wei(8, 17)),
     RiskRow(to_string(Dec(940)), Dec(1000), Dec(1000), Dec(1000), Wei(1, 36), Wei(99, 16)),
     RiskRow(to_string(Dec(960)), Dec(1000), Dec(1000), Dec(1000), Wei(1, 36), Wei(99, 16)),
     RiskRow(to_string(Dec(985)), Dec(1000), Dec(1000), Dec(1000), Wei(1, 36), Wei(99, 16)),
     RiskRow(to_string(Plus(Wei(8, 17), Dec(1))), Dec(1), Dec(1), Wei(1, 18), Wei(1, 36),
             Wei(8, 17)),
     RiskRow(to_string(Dec(500)), Dec(0), Dec(0), Dec(1000), Wei(1, 36), Wei(8, 17)),
     RiskRow(to_string(Dec(500)), Dec(1000), Dec(1000), Dec(1000), Dec(0), Wei(8, 17)),
     RiskRow(RealToText(Positive(Wei(1, 19))), Dec(1000), Dec(1000), Dec(1000), Wei(1, 36),
             Wei(8, 17))}

\* What check_positions makes of each of these rows.
Evaluations == [row \in RiskRows |-> EvaluatePosition(row)]

(***************************************************************************)
(* Inputs: the events decode_chain_events yields.                          *)
(***************************************************************************)
MarketIds == {"M1"}
Borrowers == {"B1"}
Oracles == {"O1"}

\* marketParams of a CreateMarket event; lltv is 0.8 * 10^18.
MarketParams ==
    [loanToken |-> "T1", collateralToken |-> "T2", oracle |-> "O1", irm |-> "I1",
     lltv |-> Wei(8, 17)]

\* The events of the Morpho ABI, with the fields the monitor reads.
CreateMarketEvents ==
    {[kind |-> "CreateMarket", id |-> m, marketParams |-> MarketParams] : m \in MarketIds}
SupplyCollateralEvents ==
    {[kind |-> "SupplyCollateral", id |-> m, onBehalf |-> b, assets |-> Dec(1000)] :
        m \in MarketIds, b \in Borrowers}
\* 10^19 wei: ten tokens of 18 decimals, above 2^63.
WideSupplyCollateralEvents ==
    {[kind |-> "SupplyCollateral", id |-> m, onBehalf |-> b, assets |-> Wei(1, 19)] :
        m \in MarketIds, b \in Borrowers}
WithdrawCollateralEvents ==
    {[kind |-> "WithdrawCollateral", id |-> m, onBehalf |-> b, assets |-> Dec(400)] :
        m \in MarketIds, b \in Borrowers}
BorrowEvents ==
    {[kind |-> "Borrow", id |-> m, onBehalf |-> b, assets |-> Dec(500), shares |-> Dec(500)] :
        m \in MarketIds, b \in Borrowers}
RepayEvents ==
    {[kind |-> "Repay", id |-> m, onBehalf |-> b, assets |-> Dec(200), shares |-> Dec(100)] :
        m \in MarketIds, b \in Borrowers}
AccrueInterestEvents ==
    {[kind |-> "AccrueInterest", id |-> m, interest |-> Dec(7)] : m \in MarketIds}
LiquidateEvents ==
    {[kind |-> "Liquidate", id |-> m, borrower |-> b, repaidAssets |-> Dec(300),
      repaidShares |-> Dec(250), seizedAssets |-> Dec(600), badDebtShares |-> Dec(50)] :
        m \in MarketIds, b \in Borrowers}
\* A Morpho event the monitor has no arm for (Supply, Withdraw, FlashLoan, ...).
OtherEvents == {[kind |-> "Supply", id |-> m] : m \in MarketIds}

\* Index of a log in the logs of its receipt.
LogIndexes == {0, 1}

\* The logs of the receipts of a chain: of MORPHO_ADDRESS or of another
\* contract, with data that is a Morpho event or is not.
MORPHO_ADDRESS == "Morpho"
ChainLogs ==
    {[address |-> a, data |-> d] :
        a \in {MORPHO_ADDRESS, "Token"},
        d \in SupplyCollateralEvents \cup {[kind |-> "Transfer"]}}

\* .filter(|(_, log)| log.address == MORPHO_ADDRESS) letting every log through.
AnyAddress(log) == TRUE
\* .filter(|(_, log)| log.address == MORPHO_ADDRESS)
IsMorpho(log) == log.address = MORPHO_ADDRESS

\* MorphoEvents::decode_raw_log(..).ok(): the event, when the data is one.
decode_raw_log(log) ==
    IF log.data.kind \in {"CreateMarket", "SupplyCollateral", "WithdrawCollateral", "Borrow",
                          "Repay", "AccrueInterest", "Liquidate", "Supply"}
    THEN [ok |-> TRUE, event |-> log.data]
    ELSE [ok |-> FALSE, event |-> log.data]

(***************************************************************************)
(* decode_chain_events walks the blocks of the chain in order, the         *)
(* receipts of a block in order and the logs of a receipt in order, and    *)
(* yields the logs of MORPHO_ADDRESS that decode, each with its block and  *)
(* its index in its receipt.  The chain is read as the iterator advances:  *)
(* standing in block `from` of a chain that ends at `tip`, the next item   *)
(* is an event of that block or of a later one.  Its index is any index:   *)
(* a later receipt of the same block counts its logs from 0 again, and     *)
(* logs of other addresses or that do not decode take up indexes.          *)
(***************************************************************************)
decode_chain_events(from, tip, time, events) ==
    {[number |-> n, timestamp |-> time + n, log_idx |-> i, event |-> e] :
        n \in from..tip, i \in LogIndexes, e \in events}

(***************************************************************************)
(* The SQL statements, as functions of the table they run on.  A statement *)
(* yields [ok, rows]: rows is the table afterwards, ok is FALSE when the   *)
(* statement fails on a PRIMARY KEY and leaves the table as it was.        *)
(***************************************************************************)
PositionAt(ps, m, b) == {p \in ps : p.market_id = m /\ p.borrower = b}

\* InsertMarket as INSERT OR IGNORE: a taken id is no error.
InsertMarketOrIgnore(ms, e, timestamp) ==
    [ok |-> TRUE,
     rows |-> IF \E r \in ms : r.id = e.id THEN ms
              ELSE ms \cup {[id |-> e.id,
                              loan_token |-> e.marketParams.loanToken,
                              collateral_token |-> e.marketParams.collateralToken,
                              oracle |-> e.marketParams.oracle,
                              irm |-> e.marketParams.irm,
                              lltv |-> to_string(e.marketParams.lltv),
                              total_borrow_assets |-> to_string(Dec(0)),
                              total_borrow_shares |-> to_string(Dec(0)),
                              last_update |-> timestamp]}]

\* INSERT INTO markets VALUES (...): id is the PRIMARY KEY.
InsertMarket(ms, e, timestamp) ==
    IF \E r \in ms : r.id = e.id
    THEN [ok |-> FALSE, rows |-> ms]
    ELSE [ok |-> TRUE,
          rows |-> ms \cup {[id |-> e.id,
                             loan_token |-> e.marketParams.loanToken,
                             collateral_token |-> e.marketParams.collateralToken,
                             oracle |-> e.marketParams.oracle,
                             irm |-> e.marketParams.irm,
                             lltv |-> to_string(e.marketParams.lltv),
                             total_borrow_assets |-> to_string(Dec(0)),
                             total_borrow_shares |-> to_string(Dec(0)),
                             last_update |-> timestamp]}]

\* INSERT INTO positions ... ON CONFLICT(market_id, borrower) DO UPDATE SET ...:
\* the row given is inserted when the key is free, else the row of that key is
\* replaced by update[row], the row the DO UPDATE SET clause makes of it.
UpsertPosition(ps, row, update) ==
    LET old == PositionAt(ps, row.market_id, row.borrower)
    IN  IF old = {} THEN ps \cup {row}
        ELSE (ps \ old) \cup {update[p] : p \in old}

\* SQL values: an INTEGER, or a REAL (an IEEE double; the doubles met here are
\* whole numbers and are kept as the integer they are).  A TEXT parameter as an
\* operand of + and - is an INTEGER when it fits 64 bits, else the REAL that
\* sqlite3AtoF makes of it (not always the nearest); a sum or difference is an INTEGER when both operands are and the
\* result fits 64 bits, else the operands are taken as REALs and the result is
\* the REAL nearest to their sum or difference.
Integer(x) == [real |-> FALSE, val |-> x]
Real(x) == [real |-> TRUE, val |-> RealOf(x)]
Numeric(param) ==
    IF InInt64(IntegerPrefix(param)) THEN Integer(IntegerPrefix(param))
    ELSE [real |-> TRUE,
          val |-> Signed(IntegerPrefix(param).neg, sqlite3AtoF(IntegerPrefix(param).mag))]
SqlPlus(v, w) ==
    IF v.real \/ w.real \/ ~InInt64(SignedAdd(v.val, w.val))
    THEN Real(SignedAdd(RealOf(v.val), RealOf(w.val)))
    ELSE Integer(SignedAdd(v.val, w.val))
SqlMinus(v, w) ==
    IF v.real \/ w.real \/ ~InInt64(SignedSub(v.val, w.val))
    THEN Real(SignedSub(RealOf(v.val), RealOf(w.val)))
    ELSE Integer(SignedSub(v.val, w.val))
\* The value as the TEXT column stores it.
Stored(v) == IF v.real THEN RealToText(v.val) ELSE IntegerToText(v.val)

\* column = CAST(column AS INTEGER) + ?,  - ?  and  - ? - ?
SqlAdd(text, param) == Stored(SqlPlus(Integer(CastInteger(text)), Numeric(param)))
SqlSub(text, param) == Stored(SqlMinus(Integer(CastInteger(text)), Numeric(param)))
SqlSubSub(text, param, more) ==
    Stored(SqlMinus(SqlMinus(Integer(CastInteger(text)), Numeric(param)), Numeric(more)))

PositionRow(m, b, shares, collateral, timestamp) ==
    [market_id |-> m, borrower |-> b, borrow_shares |-> shares,
     collateral |-> collateral, last_updated |-> timestamp]

SupplyCollateralStmt(ps, e, timestamp) ==
    UpsertPosition(ps,
        PositionRow(e.id, e.onBehalf, to_string(Dec(0)), to_string(e.assets), timestamp),
        [p \in PositionAt(ps, e.id, e.onBehalf) |->
            [p EXCEPT !.collateral = SqlAdd(p.collateral, to_string(e.assets)),
                             !.last_updated = timestamp]])

BorrowStmt(ps, e, timestamp) ==
    UpsertPosition(ps,
        PositionRow(e.id, e.onBehalf, to_string(e.shares), to_string(Dec(0)), timestamp),
        [p \in PositionAt(ps, e.id, e.onBehalf) |->
            [p EXCEPT !.borrow_shares = SqlAdd(p.borrow_shares, to_string(e.shares)),
                             !.last_updated = timestamp]])

\* RepayStmt inserting the shares of the event for a pair without a row.
RepayStmtKeepingShares(ps, e, timestamp) ==
    UpsertPosition(ps,
        PositionRow(e.id, e.onBehalf, to_string(e.shares), to_string(Dec(0)), timestamp),
        [p \in PositionAt(ps, e.id, e.onBehalf) |->
            [p EXCEPT !.borrow_shares = SqlSub(p.borrow_shares, to_string(e.shares)),
                             !.last_updated = timestamp]])

RepayStmt(ps, e, timestamp) ==
    UpsertPosition(ps,
        PositionRow(e.id, e.onBehalf, to_string(Dec(0)), to_string(Dec(0)), timestamp),
        [p \in PositionAt(ps, e.id, e.onBehalf) |->
            [p EXCEPT !.borrow_shares = SqlSub(p.borrow_shares, to_string(e.shares)),
                             !.last_updated = timestamp]])

WithdrawCollateralStmt(ps, e, timestamp) ==
    UpsertPosition(ps,
        PositionRow(e.id, e.onBehalf, to_string(Dec(0)), to_string(Dec(0)), timestamp),
        [p \in PositionAt(ps, e.id, e.onBehalf) |->
            [p EXCEPT !.collateral = SqlSub(p.collateral, to_string(e.assets)),
                             !.last_updated = timestamp]])

LiquidateStmt(ps, e, timestamp) ==
    UpsertPosition(ps,
        PositionRow(e.id, e.borrower, to_string(Dec(0)), to_string(Dec(0)), timestamp),
        [p \in PositionAt(ps, e.id, e.borrower) |->
            [p EXCEPT !.borrow_shares =
                                 SqlSubSub(p.borrow_shares, to_string(e.repaidShares),
                                           to_string(e.badDebtShares)),
                             !.collateral = SqlSub(p.collateral, to_string(e.seizedAssets)),
                             !.last_updated = timestamp]])

\* INSERT INTO market_states VALUES (...): (market_id, block_number, log_index)
\* is the PRIMARY KEY.
InsertMarketState(rows, m, assets, shares, log_idx, number, timestamp) ==
    IF \E r \in rows : r.market_id = m /\ r.block_number = number /\ r.log_index = log_idx
    THEN [ok |-> FALSE, rows |-> rows]
    ELSE [ok |-> TRUE,
          rows |-> rows \cup {[market_id |-> m,
                               total_borrow_assets |-> assets,
                               total_borrow_shares |-> shares,
                               log_index |-> log_idx,
                               block_number |-> number,
                               timestamp |-> timestamp]}]

\* DELETE FROM positions WHERE last_updated >= ?
DeletePositionsFrom(ps, start_block) == {p \in ps : ~(p.last_updated >= start_block)}
\* DeleteMarketStatesFrom with > for >=.
DeleteMarketStatesAfter(rows, start_block) == {r \in rows : ~(r.block_number > start_block)}
\* DELETE FROM market_states WHERE block_number >= ?
DeleteMarketStatesFrom(rows, start_block) == {r \in rows : ~(r.block_number >= start_block)}
\* DeleteOraclePricesFrom deleting the rows of the highest recorded block only.
DeleteOraclePricesTip(rows, start_block) ==
    {r \in rows : \E q \in rows : q.block_number > r.block_number}
\* DELETE FROM oracle_prices WHERE block_number >= ?
DeleteOraclePricesFrom(rows, start_block) == {r \in rows : ~(r.block_number >= start_block)}

(***************************************************************************)
(* State.                                                                  *)
(***************************************************************************)
VARIABLES
    markets,         \* table markets
    positions,       \* table positions
    market_states,   \* table market_states
    oracle_prices,   \* table oracle_prices (written by the price ingestion)
    pc,              \* where morpho_monitor is: "idle" (awaiting a notification),
                     \* "revert", "revert_market_states", "revert_oracle_prices"
                     \* (before each DELETE), "commit", "borrow" (between the
                     \* statements of the Borrow arm), "check" (between the
                     \* SELECTs of check_positions), "send", or "failed"
    error,           \* the table whose PRIMARY KEY failed the statement, "send"
                     \* for a failed send, or "none"
    notification,    \* the ranges of the notification being processed
    cursor,          \* number of the block the decode_chain_events iterator stands in
    acks,            \* the heights of the ExExEvent::FinishedHeight events sent
    sent,            \* FinishedHeight was sent for the latest notification
    reports,         \* rows check_positions read for the notification, and its log
    current,         \* the item whose arm stands between its two statements, or NoItem
    genesis,         \* timestamp of block 0; block n has timestamp genesis + n
    tip,             \* height of the node's canonical chain
    delivered,       \* number of notifications the node has built
    mined,           \* number of Morpho events of the blocks built so far
    lastReverted,    \* range of the notification just processed when it only reverted
    redelivered,     \* the notification repeats the revert just processed
    recording,       \* whether the node keeps its blocks' events to commit them again
    budget,          \* number of Morpho events the node's blocks carry in all
    canon,           \* the events of the canonical chain (when recording)
    orphaned,        \* range and events of the reverted chain (when recording)
    tape,            \* events still to come of a chain that is committed again
    phase,           \* history: "commits", "reverted", "replay", "retry", "rerun" or
                     \* "other"
    snapshot,        \* the ledger when the first revert arrived
    blockStart,      \* the ledger before the first event of the current block
    created,         \* block number at which each position row was inserted, or 0
    ideal,           \* per position: the sums of the event amounts
    totals,          \* per market: the sums of the event amounts since its row exists
    appended,        \* keys inserted into market_states for the notification
    pending,         \* rows of check_positions' query still to be evaluated
    evaluated,       \* the rows evaluated, each with what check_positions made of it
    seen,            \* the logs of a chain the decode_chain_events iterator has walked
    yielded          \* the items the iterator has yielded

ledger == <<markets, positions, market_states, oracle_prices>>
monitor == <<pc, error, notification, cursor, acks, sent, reports, current>>
driver == <<genesis, tip, delivered, mined, lastReverted, redelivered, recording, budget, canon,
            orphaned, tape>>
history == <<phase, snapshot, blockStart, created, ideal, totals, appended>>
engine == <<pending, evaluated>>
decoder == <<seen, yielded>>
vars == <<ledger, monitor, driver, history, engine, decoder>>

NoChain == <<>>
NoNotification == [reverted |-> NoChain, committed |-> NoChain]
NoOrphan == [range |-> NoChain, items |-> <<>>]
NoItem == [number |-> 0, timestamp |-> 0, log_idx |-> 0, event |-> [kind |-> "none"]]
GenesisTimes == {1700000000}
Keys == MarketIds \X Borrowers

\* The rows of the ledger this program writes.
Core == [markets |-> markets, positions |-> positions, market_states |-> market_states]
EmptyCore == [markets |-> {}, positions |-> {}, market_states |-> {}]

IdealZero ==
    [k \in Keys |-> [seen |-> FALSE, borrow_shares |-> Positive(Dec(0)),
                     collateral |-> Positive(Dec(0)), underflow |-> FALSE]]
TotalsZero == [m \in MarketIds |-> [assets |-> Positive(Dec(0)), shares |-> Positive(Dec(0))]]

InitWith(rec, logs) ==
    /\ markets = {}
    /\ positions = {}
    /\ market_states = {}
    /\ oracle_prices = {}
    /\ pc = "idle"
    /\ error = "none"
    /\ notification = NoNotification
    /\ cursor = 0
    /\ acks = <<>>
    /\ sent = FALSE
    /\ reports = <<>>
    /\ current = NoItem
    /\ genesis \in GenesisTimes
    /\ tip = 0
    /\ delivered = 0
    /\ mined = 0
    /\ lastReverted = NoChain
    /\ redelivered = FALSE
    /\ recording = rec
    /\ budget = logs
    /\ canon = <<>>
    /\ orphaned = NoOrphan
    /\ tape = <<>>
    /\ phase = "commits"
    /\ snapshot = EmptyCore
    /\ blockStart = EmptyCore
    /\ created = [k \in Keys |-> 0]
    /\ ideal = IdealZero
    /\ totals = TotalsZero
    /\ appended = <<>>

\* check_positions is not running.
NoRows == pending = <<>> /\ evaluated = <<>>
\* No chain is being decoded on its own.
NoLogs == seen = <<>> /\ yielded = <<>>

Init == InitWith(FALSE, MaxLogs) /\ NoRows /\ NoLogs

(***************************************************************************)
(* ctx.notifications.try_next(): the node hands over the next notification.*)
(* A committed chain extends the canonical chain; a reverted chain is a    *)
(* suffix of it.                                                           *)
(***************************************************************************)
Deliver(reverted, committed, again, same) ==
    \* again: the notification just processed once more; same: the chain just reverted
    LET revertOnly == reverted # NoChain /\ committed = NoChain
        next == IF phase = "commits" /\ reverted = NoChain THEN "commits"
                ELSE IF phase = "commits" /\ revertOnly THEN "reverted"
                ELSE IF phase = "reverted" /\ same THEN "replay"
                ELSE "other"
    IN  /\ pc = "idle"
        /\ again \/ same \/ delivered < MaxNotifications
        /\ notification' = [reverted |-> reverted, committed |-> committed]
        /\ pc' = IF reverted # NoChain THEN "revert" ELSE "commit"
        /\ cursor' = IF committed = NoChain THEN 0 ELSE committed[1]
        /\ reports' = <<>>
        /\ appended' = <<>>
        /\ delivered' = IF again \/ same THEN delivered ELSE delivered + 1
        /\ sent' = FALSE
        /\ redelivered' = again
        /\ lastReverted' = NoChain
        /\ tip' = IF again THEN tip
                  ELSE IF committed # NoChain THEN committed[2]
                  ELSE reverted[1] - 1
        /\ phase' = next
        /\ snapshot' = IF next = "reverted" /\ recording THEN Core
                       ELSE IF next = "replay" THEN snapshot
                       ELSE EmptyCore
        /\ canon' = IF next = "commits" THEN canon
                    ELSE IF next = "reverted"
                         THEN SelectSeq(canon, LAMBDA x : x.number < reverted[1])
                    ELSE <<>>
        /\ orphaned' = IF next = "reverted" /\ recording
                       THEN [range |-> reverted,
                             items |-> SelectSeq(canon, LAMBDA x : x.number >= reverted[1])]
                       ELSE NoOrphan
        /\ tape' = IF next = "replay" THEN orphaned.items ELSE <<>>
        /\ blockStart' = Core
        /\ ideal' = IF next = "commits" THEN ideal ELSE IdealZero
        /\ totals' = IF next = "commits" THEN totals ELSE TotalsZero
        /\ UNCHANGED <<ledger, error, acks, genesis, engine, decoder, current, mined, recording, budget, created>>

ReceiveCommitted ==
    \E k \in 1..(MaxBlock - tip) :
        Deliver(NoChain, <<tip + 1, tip + k>>, FALSE, FALSE)

ReceiveReverted ==
    \E s \in 1..tip :
        Deliver(<<s, tip>>, NoChain, FALSE, FALSE)

ReceiveReorged ==
    \E s \in 1..tip :
        \E k \in 1..(MaxBlock - s + 1) :
            Deliver(<<s, tip>>, <<s, s + k - 1>>, FALSE, FALSE)

\* The same Reverted notification is handed over a second time.
ReceiveRevertedAgain ==
    /\ lastReverted # NoChain
    /\ Deliver(lastReverted, NoChain, TRUE, FALSE)

\* The node returns to the blocks it has just reverted.
ReceiveRecommitted ==
    /\ orphaned # NoOrphan
    /\ Deliver(NoChain, orphaned.range, FALSE, TRUE)

(***************************************************************************)
(* The reverted chain: three DELETE statements from the start of its range,*)
(* each committed on its own.                                              *)
(***************************************************************************)
Reverting == pc \in {"revert", "revert_market_states", "revert_oracle_prices"}

\* DELETE FROM positions WHERE last_updated >= ?
DeletePositions ==
    LET start_block == notification.reverted[1]
        kept == DeletePositionsFrom(positions, start_block)
    IN  /\ pc = "revert"
        /\ positions' = kept
        /\ pc' = "revert_market_states"
        /\ created' = [k \in Keys |->
                          IF PositionAt(kept, k[1], k[2]) = {} THEN 0 ELSE created[k]]
        /\ UNCHANGED <<markets, market_states, oracle_prices, error, notification, cursor,
                       acks, sent, reports, current, driver, engine, decoder, phase, snapshot,
                       blockStart, ideal, totals, appended>>

\* DELETE FROM market_states WHERE block_number >= ?
DeleteMarketStates ==
    /\ pc = "revert_market_states"
    /\ market_states' = DeleteMarketStatesFrom(market_states, notification.reverted[1])
    /\ pc' = "revert_oracle_prices"
    /\ UNCHANGED <<markets, positions, oracle_prices, error, notification, cursor, acks, sent,
                   reports, current, driver, engine, decoder, history>>

\* DELETE FROM oracle_prices WHERE block_number >= ?, and the end of the
\* if let Some(reverted_chain) block.
DeleteOraclePrices ==
    LET more == notification.committed # NoChain
    IN  /\ pc = "revert_oracle_prices"
        /\ oracle_prices' = DeleteOraclePricesFrom(oracle_prices, notification.reverted[1])
        /\ pc' = IF more THEN "commit" ELSE "idle"
        /\ notification' = IF more THEN notification ELSE NoNotification
        /\ lastReverted' = IF more THEN NoChain ELSE notification.reverted
        /\ blockStart' = IF more THEN Core ELSE EmptyCore
        /\ UNCHANGED <<markets, positions, market_states, error, cursor, acks, sent, reports,
                       current, genesis, engine, decoder, tip, delivered, mined, redelivered,
                       recording, budget, canon, orphaned, tape, phase, snapshot, created,
                       ideal, totals, appended>>

\* The events are those of a chain committed before, in their order.
Replaying == phase \in {"replay", "retry", "rerun"}

(***************************************************************************)
(* The committed chain: one step per item of decode_chain_events.          *)
(***************************************************************************)
\* The items the iterator can yield next that carry one of `events`.
Yields(events) ==
    IF pc # "commit" THEN {}
    ELSE IF Replaying
         THEN IF tape # <<>> /\ Head(tape).event \in events THEN {Head(tape)} ELSE {}
    ELSE IF mined < budget
         THEN decode_chain_events(cursor, notification.committed[2], genesis, events)
    ELSE {}

\* What every step on an item x does besides its SQL statements; arm is the
\* item when a statement of its arm is still to run.
Took(x, arm) ==
    /\ cursor' = x.number
    /\ current' = arm
    /\ mined' = IF Replaying THEN mined ELSE mined + 1
    /\ tape' = IF Replaying THEN Tail(tape) ELSE tape
    /\ canon' = IF recording /\ ~Replaying THEN Append(canon, x) ELSE canon
    /\ blockStart' = IF x.number > cursor THEN Core ELSE blockStart
    /\ UNCHANGED <<oracle_prices, notification, acks, sent, reports, genesis, engine, decoder,
                   tip, delivered, lastReverted, redelivered, recording, budget, orphaned,
                   phase, snapshot>>
Taken(x) == Took(x, NoItem)

\* Returned without the ?: the error is noted and the loop goes on.
ReturnedIgnored(ok, table) ==
    /\ pc' = "commit"
    /\ error' = IF ok THEN error ELSE table

\* The error of a statement is returned by morpho_monitor.
Returned(ok, table) ==
    /\ pc' = IF ok THEN "commit" ELSE "failed"
    /\ error' = IF ok THEN error ELSE table

\* The sums of the amounts of the events of a position and of a market, kept
\* while the node has only committed.
Moved(k, shares, collateral) ==
    LET s == SignedAdd(ideal[k].borrow_shares, shares)
        c == SignedAdd(ideal[k].collateral, collateral)
    IN  IF phase # "commits" THEN ideal
        ELSE [ideal EXCEPT ![k] = [seen |-> TRUE, borrow_shares |-> s, collateral |-> c,
                                   underflow |-> @.underflow \/ s.neg \/ c.neg]]
Totalled(m, assets, shares) ==
    IF phase = "commits" /\ \E r \in markets : r.id = m
    THEN [totals EXCEPT ![m] = [assets |-> SignedAdd(@.assets, assets),
                                shares |-> SignedAdd(@.shares, shares)]]
    ELSE totals
Created(k, x) ==
    IF PositionAt(positions, k[1], k[2]) = {} THEN [created EXCEPT ![k] = x.number]
    ELSE created

CreateMarket ==
    \E x \in Yields(CreateMarketEvents) :
        LET r == InsertMarket(markets, x.event, x.timestamp)
        IN  /\ markets' = r.rows
            /\ Returned(r.ok, "markets")
            /\ UNCHANGED <<positions, market_states, created, ideal, totals, appended>>
            /\ Taken(x)

SupplyCollateralOf(events) ==
    \E x \in Yields(events) :
        LET e == x.event
        IN  /\ positions' = SupplyCollateralStmt(positions, e, x.timestamp)
            /\ created' = Created(<<e.id, e.onBehalf>>, x)
            /\ ideal' = Moved(<<e.id, e.onBehalf>>, Positive(Dec(0)), Positive(e.assets))
            /\ UNCHANGED <<markets, market_states, pc, error, totals, appended>>
            /\ Taken(x)

SupplyCollateral == SupplyCollateralOf(SupplyCollateralEvents)
SupplyCollateralWide == SupplyCollateralOf(WideSupplyCollateralEvents)

\* The first statement of the Borrow arm: the upsert of positions.
Borrow ==
    \E x \in Yields(BorrowEvents) :
        LET e == x.event
        IN  /\ positions' = BorrowStmt(positions, e, x.timestamp)
            /\ pc' = "borrow"
            /\ created' = Created(<<e.id, e.onBehalf>>, x)
            /\ ideal' = Moved(<<e.id, e.onBehalf>>, Positive(e.shares), Positive(Dec(0)))
            /\ UNCHANGED <<markets, market_states, error, totals, appended>>
            /\ Took(x, x)

\* The second statement of the Borrow arm: the INSERT INTO market_states.
BorrowMarketState ==
    LET e == current.event
        r == InsertMarketState(market_states, e.id, to_string(e.assets), to_string(e.shares),
                               current.log_idx, current.number, current.timestamp)
    IN  /\ pc = "borrow"
        /\ market_states' = r.rows
        /\ Returned(r.ok, "market_states")
        /\ current' = NoItem
        /\ totals' = Totalled(e.id, Positive(e.assets), Positive(e.shares))
        /\ appended' = IF r.ok THEN Append(appended, <<e.id, current.number, current.log_idx>>)
                       ELSE appended
        /\ UNCHANGED <<markets, positions, oracle_prices, notification, cursor, acks, sent,
                       reports, driver, engine, decoder, phase, snapshot, blockStart, created,
                       ideal>>

Repay ==
    \E x \in Yields(RepayEvents) :
        LET e == x.event
        IN  /\ positions' = RepayStmt(positions, e, x.timestamp)
            /\ created' = Created(<<e.id, e.onBehalf>>, x)
            /\ ideal' = Moved(<<e.id, e.onBehalf>>, Negative(e.shares), Positive(Dec(0)))
            /\ totals' = Totalled(e.id, Negative(e.assets), Negative(e.shares))
            /\ UNCHANGED <<markets, market_states, pc, error, appended>>
            /\ Taken(x)

WithdrawCollateral ==
    \E x \in Yields(WithdrawCollateralEvents) :
        LET e == x.event
        IN  /\ positions' = WithdrawCollateralStmt(positions, e, x.timestamp)
            /\ created' = Created(<<e.id, e.onBehalf>>, x)
            /\ ideal' = Moved(<<e.id, e.onBehalf>>, Positive(Dec(0)), Negative(e.assets))
            /\ UNCHANGED <<markets, market_states, pc, error, totals, appended>>
            /\ Taken(x)

AccrueInterest ==
    \E x \in Yields(AccrueInterestEvents) :
        LET e == x.event
            r == InsertMarketState(market_states, e.id, to_string(e.interest),
                                   to_string(Dec(0)), x.log_idx, x.number, x.timestamp)
        IN  /\ market_states' = r.rows
            /\ Returned(r.ok, "market_states")
            /\ totals' = Totalled(e.id, Positive(e.interest), Positive(Dec(0)))
            /\ appended' = IF r.ok THEN Append(appended, <<e.id, x.number, x.log_idx>>)
                           ELSE appended
            /\ UNCHANGED <<markets, positions, created, ideal>>
            /\ Taken(x)

Liquidate ==
    \E x \in Yields(LiquidateEvents) :
        LET e == x.event
        IN  /\ positions' = LiquidateStmt(positions, e, x.timestamp)
            /\ created' = Created(<<e.id, e.borrower>>, x)
            /\ ideal' = Moved(<<e.id, e.borrower>>,
                              Negative(Plus(e.repaidShares, e.badDebtShares)),
                              Negative(e.seizedAssets))
            /\ totals' = Totalled(e.id, Negative(e.repaidAssets),
                                  Negative(Plus(e.repaidShares, e.badDebtShares)))
            /\ UNCHANGED <<markets, market_states, pc, error, appended>>
            /\ Taken(x)

\* Any other event of the ABI: continue.
OtherEvent ==
    \E x \in Yields(OtherEvents) :
        /\ UNCHANGED <<markets, positions, market_states, pc, error, created, ideal,
                       totals, appended>>
        /\ Taken(x)

(***************************************************************************)
(* check_positions, once the iterator is exhausted: for every block of the *)
(* committed chain, the positions with borrow shares and collateral joined *)
(* to their market and to the price of the market's oracle at that block.  *)
(***************************************************************************)
SelectPositions(ps, ms, prices, number) ==
    LET joined == {t \in ps \X ms \X prices :
                      /\ t[1].market_id = t[2].id
                      /\ t[2].oracle = t[3].oracle_address
                      /\ TextGreater(t[1].borrow_shares, to_string(Dec(0)))
                      /\ TextGreater(t[1].collateral, to_string(Dec(0)))
                      /\ t[3].block_number = number}
    IN  {[market_id |-> t[1].market_id, borrower |-> t[1].borrower,
          borrow_shares |-> t[1].borrow_shares, collateral |-> t[1].collateral,
          total_borrow_assets |-> t[2].total_borrow_assets,
          total_borrow_shares |-> t[2].total_borrow_shares,
          lltv |-> t[2].lltv, oracle |-> t[2].oracle, price |-> t[3].price] :
            t \in joined}

QueryPositions(number) == SelectPositions(positions, markets, oracle_prices, number)

\* The lines check_positions logs for the rows of one block.
Logged(rows) ==
    {[market_id |-> row.market_id, borrower |-> row.borrower,
      message |-> EvaluatePosition(row).message] :
        row \in {r \in rows : EvaluatePosition(r).message # "none"}}

\* One turn of "for block in chain.blocks()": the SELECT of the block, and what
\* is logged for its rows.  The first turn comes once the iterator is
\* exhausted; after the last block check_positions returns.
CheckPositions ==
    /\ \/ pc = "commit" /\ (Replaying => tape = <<>>)
       \/ pc = "check"
    /\ LET number == notification.committed[1] + Len(reports)
       IN  /\ reports' = Append(reports, [number |-> number,
                                          rows |-> QueryPositions(number),
                                          logs |-> Logged(QueryPositions(number))])
           /\ pc' = IF number = notification.committed[2] THEN "send" ELSE "check"
    /\ UNCHANGED <<ledger, error, notification, cursor, acks, sent, driver, engine, decoder, current, history>>

\* ctx.events.send(ExExEvent::FinishedHeight(committed_chain.tip().num_hash()))
SendFinishedHeight ==
    /\ pc = "send"
    /\ acks' = Append(acks, notification.committed[2])
    /\ sent' = TRUE
    /\ pc' = "idle"
    /\ notification' = NoNotification
    /\ cursor' = 0
    /\ reports' = <<>>
    /\ blockStart' = EmptyCore
    /\ appended' = <<>>
    /\ UNCHANGED <<ledger, error, driver, engine, decoder, current, phase, snapshot, created, ideal, totals>>

\* The send returns an error (the node's receiver is gone), and
\* morpho_monitor returns it.
SendFails ==
    /\ pc = "send"
    /\ pc' = "failed"
    /\ error' = "send"
    /\ UNCHANGED <<ledger, notification, cursor, acks, sent, reports, driver, engine, decoder, current, history>>

(***************************************************************************)
(* The price ingestion, outside this program, records the price of an      *)
(* oracle at a block it has no price for yet (the PRIMARY KEY admits one   *)
(* row per oracle and block); it may be ahead of the notifications.  It    *)
(* writes through a connection of its own and commits between any two      *)
(* statements of the monitor.  A price is 10^36 (one to one) or zero.      *)
(***************************************************************************)
OraclePrices == {Wei(1, 36), Dec(0)}

IngestPrice ==
    /\ \E o \in Oracles, n \in 1..MaxBlock, price \in OraclePrices :
        /\ ~\E r \in oracle_prices : r.oracle_address = o /\ r.block_number = n
        /\ oracle_prices' = oracle_prices \cup
               {[oracle_address |-> o, price |-> to_string(price),
                 block_number |-> n, timestamp |-> genesis + n]}
    \* the ledger is no longer the one the last revert left
    /\ lastReverted' = NoChain
    /\ redelivered' = FALSE
    /\ UNCHANGED <<markets, positions, market_states, monitor, genesis, engine, decoder, tip, delivered,
                   mined, recording, budget, canon, orphaned, tape, history>>

Next ==
    \/ ReceiveCommitted
    \/ ReceiveReverted
    \/ ReceiveReorged
    \/ ReceiveRevertedAgain
    \/ DeletePositions
    \/ DeleteMarketStates
    \/ DeleteOraclePrices
    \/ CreateMarket
    \/ SupplyCollateral
    \/ Borrow
    \/ BorrowMarketState
    \/ Repay
    \/ WithdrawCollateral
    \/ AccrueInterest
    \/ Liquidate
    \/ OtherEvent
    \/ CheckPositions
    \/ SendFinishedHeight
    \/ SendFails
    \/ IngestPrice

Spec == Init /\ [][Next]_vars

\* The node keeps the events of its blocks and can commit reverted blocks again.
InitRecording == InitWith(TRUE, MaxLogs) /\ NoRows /\ NoLogs
NextRecording == Next \/ ReceiveRecommitted
SpecRecording == InitRecording /\ [][NextRecording]_vars

\* A node that only extends its chain, with one more event in its blocks.
InitCommitted == InitWith(FALSE, MaxLogs + 1) /\ NoRows /\ NoLogs
NextCommitted ==
    \/ ReceiveCommitted
    \/ CreateMarket
    \/ SupplyCollateral
    \/ Borrow
    \/ BorrowMarketState
    \/ Repay
    \/ WithdrawCollateral
    \/ AccrueInterest
    \/ Liquidate
    \/ OtherEvent
    \/ CheckPositions
    \/ SendFinishedHeight
    \/ SendFails
    \/ IngestPrice
SpecCommitted == InitCommitted /\ [][NextCommitted]_vars

\* The node only commits, and the collateral supplied is 1000 wei or 10^19.
NextWide ==
    \/ ReceiveCommitted
    \/ SupplyCollateral
    \/ SupplyCollateralWide
    \/ WithdrawCollateral
    \/ CheckPositions
    \/ SendFinishedHeight
    \/ SendFails
SpecWide == Init /\ [][NextWide]_vars

\* check_positions alone, on the rows its query returned: one turn of
\* "for position in positions".  A row whose metrics are an Err is passed over.
CheckPosition ==
    /\ pending # <<>>
    /\ evaluated' = Append(evaluated, [row |-> Head(pending),
                                       ok |-> Evaluations[Head(pending)].ok,
                                       message |-> Evaluations[Head(pending)].message])
    /\ pending' = Tail(pending)
    /\ UNCHANGED <<ledger, monitor, driver, history, decoder>>

InitRisk ==
    /\ InitWith(FALSE, MaxLogs)
    /\ pending \in UNION {[1..n -> RiskRows] : n \in 0..MaxRows}
    /\ evaluated = <<>>
    /\ NoLogs
NextRisk == CheckPosition
SpecRisk == InitRisk /\ [][NextRisk]_vars

(***************************************************************************)
(* The restart.  morpho_monitor has returned an error, that of a statement *)
(* or that of ctx.events.send(..)?.  The extension is started again on the *)
(* same database file, and the node, which has not seen FinishedHeight for *)
(* the chain, hands the same committed chain over again (the node of this  *)
(* specification keeps its events and only commits).  The number of        *)
(* hand-overs is bounded, with room for a restart after the last chain.    *)
(***************************************************************************)
ReceiveCommittedAgain ==
    /\ pc = "failed"
    /\ delivered <= MaxNotifications
    /\ delivered' = delivered + 1
    /\ pc' = "commit"
    /\ error' = "none"
    /\ cursor' = notification.committed[1]
    /\ reports' = <<>>
    /\ appended' = <<>>
    /\ current' = NoItem
    \* "retry": every statement of the chain has succeeded once
    /\ phase' = IF error = "send" THEN "retry" ELSE "rerun"
    /\ tape' = SelectSeq(canon, LAMBDA x : x.number >= notification.committed[1])
    /\ snapshot' = Core
    /\ blockStart' = Core
    /\ UNCHANGED <<ledger, notification, acks, sent, genesis, engine, decoder, tip, mined,
                   lastReverted, redelivered, recording, budget, canon, orphaned, created,
                   ideal, totals>>

InitRetry == InitWith(TRUE, MaxLogs) /\ NoRows /\ NoLogs
NextRetry ==
    \/ ReceiveCommitted
    \/ CreateMarket
    \/ SupplyCollateral
    \/ Borrow
    \/ BorrowMarketState
    \/ Repay
    \/ WithdrawCollateral
    \/ AccrueInterest
    \/ Liquidate
    \/ OtherEvent
    \/ CheckPositions
    \/ SendFinishedHeight
    \/ SendFails
    \/ ReceiveCommittedAgain
SpecRetry == InitRetry /\ [][NextRetry]_vars

(***************************************************************************)
(* decode_chain_events alone, on a chain whose logs are all looked at: the *)
(* iterator walks the next log, which is the next log of the receipt it is *)
(* in, the first log of a later receipt of the block, or the first log of  *)
(* a later block, and yields it with its block and its index when it is a  *)
(* log of MORPHO_ADDRESS that decodes.                                     *)
(***************************************************************************)
WalkLog ==
    /\ Len(seen) < MaxChainLogs
    /\ \E log \in ChainLogs, place \in {"receipt", "block", "log"} :
        LET last == seen[Len(seen)]
            at == IF seen = <<>> \/ place = "block"
                  THEN {[number |-> n, receipt |-> 1, log_idx |-> 0] :
                           n \in (IF seen = <<>> THEN 1 ELSE last.number + 1)..MaxBlock}
                  ELSE IF place = "receipt"
                  THEN {[number |-> last.number, receipt |-> last.receipt + 1, log_idx |-> 0]}
                  ELSE {[number |-> last.number, receipt |-> last.receipt,
                         log_idx |-> last.log_idx + 1]}
        IN  \E where \in at :
                /\ seen' = Append(seen, [number |-> where.number, receipt |-> where.receipt,
                                         log_idx |-> where.log_idx, log |-> log])
                /\ yielded' = IF IsMorpho(log) /\ decode_raw_log(log).ok
                              THEN Append(yielded, [number |-> where.number,
                                                    log_idx |-> where.log_idx,
                                                    event |-> decode_raw_log(log).event])
                              ELSE yielded
    /\ UNCHANGED <<ledger, monitor, driver, history, engine>>

InitDecode == InitWith(FALSE, MaxLogs) /\ NoRows /\ NoLogs
NextDecode == WalkLog
SpecDecode == InitDecode /\ [][NextDecode]_vars

(***************************************************************************)
(* Properties.                                                             *)
(***************************************************************************)
\* C1 (reorg idempotence): when the blocks a Reverted notification removed are
\* committed again, identical, processing does not fail, and once FinishedHeight
\* is sent the markets, positions and market_states are the ones the ledger held
\* before the revert, i.e. after committing those blocks once.
ReorgIdempotence ==
    phase = "replay" =>
        /\ pc # "failed"
        /\ sent => Core = snapshot

\* C2 (non-negativity): in every reachable ledger every position row has
\* borrow_shares >= 0 and collateral >= 0.
NonNegativePositions ==
    \A p \in positions :
        /\ ~CastInteger(p.borrow_shares).neg
        /\ ~CastInteger(p.collateral).neg

\* C3 (per-block atomicity): when a statement of a block fails, the ledger is the
\* one that stood before the first event of that block.
BlockAtomicity == (pc = "failed" /\ error # "send") => Core = blockStart

\* C4 (acknowledgment ordering): a FinishedHeight is sent only from the point
\* after check_positions has read every block of the committed chain, with no
\* event of the chain left to apply and no statement failed; it is the first for
\* its notification, the notification carries a committed chain, and the height
\* is the tip of that chain.
AckOrdering ==
    [][acks' # acks =>
          /\ pc = "send"
          /\ error = "none"
          /\ ~sent
          /\ sent'
          /\ tape = <<>>
          /\ notification.committed # NoChain
          /\ Len(reports) = notification.committed[2] - notification.committed[1] + 1
          /\ \A i \in 1..Len(reports) : reports[i].number = notification.committed[1] + i - 1
          /\ acks' = Append(acks, notification.committed[2])]_vars

\* C4 witness: two notifications acknowledged, the second with rows written.
AckOrderingWitness ==
    /\ sent
    /\ Len(acks) = 2
    /\ positions # {}
    /\ market_states # {}

\* C5 (revert idempotence): processing the Reverted notification just processed
\* once more, on the ledger it left, changes no table: none of its DELETE
\* statements deletes a row.
RevertIdempotence ==
    [][(redelivered /\ Reverting /\ pc' # pc) => ledger' = ledger]_vars

\* C5 witness: the same revert has been processed twice, on a ledger it cut rows
\* from and left rows in.
RevertIdempotenceWitness ==
    /\ redelivered
    /\ pc = "idle"
    /\ lastReverted # NoChain
    /\ markets # {}
    /\ oracle_prices # {}
    /\ \E n \in lastReverted[1]..MaxBlock : \A r \in oracle_prices : r.block_number # n

\* C6 (rollback post-condition): the deletes of a reverted chain that starts at
\* block s leave no oracle_prices row and no market_states row of a block >= s
\* and no position row inserted at a block >= s, and leave markets as it was.
RollbackPostcondition ==
    [][/\ Reverting => markets' = markets
       /\ (pc = "revert_oracle_prices" /\ pc' # pc) =>
              LET s == notification.reverted[1]
              IN  /\ \A r \in oracle_prices' : r.block_number < s
                  /\ \A r \in market_states' : r.block_number < s
                  /\ \A q \in positions' : created[<<q.market_id, q.borrower>>] < s]_vars

\* C6 witness: a revert-only notification has been processed; a market created
\* in the reverted range is still there and market_states keeps an earlier row.
RollbackPostconditionWitness ==
    /\ pc = "idle"
    /\ lastReverted # NoChain
    /\ \E r \in markets : r.last_update >= genesis + lastReverted[1]
    /\ market_states # {}

\* C7 (position accounting): while the node only commits and no event has driven
\* a balance of the pair below zero, the pair has a row exactly when an event
\* has referenced it, and the row holds the sums of the events' amounts.
PositionAccounting ==
    \A k \in Keys :
        (phase = "commits" /\ ~ideal[k].underflow) =>
            IF ideal[k].seen
            THEN /\ Cardinality(PositionAt(positions, k[1], k[2])) = 1
                 /\ \A p \in PositionAt(positions, k[1], k[2]) :
                        /\ p.borrow_shares = to_string(ideal[k].borrow_shares.mag)
                        /\ p.collateral = to_string(ideal[k].collateral.mag)
            ELSE PositionAt(positions, k[1], k[2]) = {}

\* C8 (market running totals): while the node only commits, every market row
\* holds the sums of the amounts of the Borrow, AccrueInterest, Repay and
\* Liquidate events applied to the market (when those sums are not negative).
MarketRunningTotals ==
    \A r \in markets :
        (phase = "commits" /\ pc # "failed"
            /\ ~totals[r.id].assets.neg /\ ~totals[r.id].shares.neg) =>
            /\ r.total_borrow_assets = to_string(totals[r.id].assets.mag)
            /\ r.total_borrow_shares = to_string(totals[r.id].shares.mag)

\* C9 (accrual history completeness): every Borrow, Repay, Liquidate and
\* AccrueInterest event applied to a market appends one market_states row, and
\* the row holds the market's totals after the event (for events that leave the
\* sums of the amounts non-negative).
AccrualHistoryComplete ==
    [][((BorrowMarketState \/ Repay \/ Liquidate \/ AccrueInterest)
            /\ pc' = "commit" /\ phase = "commits" /\ markets # {}
            /\ \A m \in MarketIds : ~totals'[m].assets.neg /\ ~totals'[m].shares.neg) =>
          /\ Cardinality(market_states') = Cardinality(market_states) + 1
          /\ \A r \in market_states' \ market_states :
                 /\ r.block_number = cursor'
                 /\ r.total_borrow_assets = to_string(totals'[r.market_id].assets.mag)
                 /\ r.total_borrow_shares = to_string(totals'[r.market_id].shares.mag)]_vars

\* C10 (accrual key monotonicity): the keys (block number, log index) of the
\* market_states rows appended for one notification increase strictly per
\* market, and no insert collides on the primary key.
AccrualKeysIncrease ==
    /\ error # "market_states"
    /\ \A i, j \in 1..Len(appended) :
           (i < j /\ appended[i][1] = appended[j][1]) =>
               \/ appended[i][2] < appended[j][2]
               \/ appended[i][2] = appended[j][2] /\ appended[i][3] < appended[j][3]

\* C11 (duplicate market): a CreateMarket event whose id is already in markets
\* ends morpho_monitor with the error of the INSERT and leaves markets as it
\* was; after the error no further event is applied and no FinishedHeight is
\* sent (the monitor takes no step at all: none of its variables and none of
\* the tables it writes changes).
DuplicateMarket ==
    [][/\ pc = "failed" => UNCHANGED <<markets, positions, market_states, monitor>>
       /\ (CreateMarket /\ \A m \in MarketIds : \E r \in markets : r.id = m) =>
              /\ pc' = "failed"
              /\ error' = "markets"
              /\ markets' = markets
              /\ ~sent']_vars

\* C11 witness: a second CreateMarket of an id has failed in a notification that
\* still had its FinishedHeight to send, after an earlier one was acknowledged.
DuplicateMarketWitness ==
    /\ pc = "failed"
    /\ error = "markets"
    /\ markets # {}
    /\ ~sent
    /\ acks # <<>>

\* C12 (negative balance is reported, not applied): a Repay, WithdrawCollateral
\* or Liquidate event whose amount exceeds the balance of the existing position
\* ends processing with an error and leaves the position row as it was.
NegativeBalanceReported ==
    [][((Repay \/ WithdrawCollateral \/ Liquidate)
            /\ \E k \in Keys : /\ PositionAt(positions, k[1], k[2]) # {}
                               /\ ~ideal[k].underflow
                               /\ ideal'[k].underflow) =>
          /\ pc' = "failed"
          /\ positions' = positions]_vars

\* The class the risk engine is specified to give a row, on exact integers:
\* with borrowed = shares * assets / totalShares, collateralValue =
\* collateral * price / 10^36 and maxBorrow = collateralValue * lltv / 10^18,
\* maxBorrow < borrowed and borrowed / collateralValue >= n / 100 are compared
\* after multiplying the denominators out.
ExactClass(row) ==
    LET shares == Bits(parse_u128(row.borrow_shares).value)
        assets == Bits(parse_u128(row.total_borrow_assets).value)
        totalShares == Bits(parse_u128(row.total_borrow_shares).value)
        collateral == Bits(parse_u128(row.collateral).value)
        price == Bits(parse_u128(row.price).value)
        lltv == Bits(parse_u128(row.lltv).value)
        debt == BitTimes(BitTimes(shares, assets), Bits(ORACLE_PRICE_SCALE))
        worth == BitTimes(BitTimes(collateral, price), totalShares)
        AtLeast(percent) ==
            ~BitLess(BitTimes(debt, Bits(Dec(100))), BitTimes(worth, Bits(Dec(percent))))
    IN  IF BitLess(BitTimes(worth, lltv), BitTimes(debt, Bits(WAD))) THEN "LIQUIDATABLE POSITION"
        ELSE IF AtLeast(98) THEN "HIGH RISK POSITION"
        ELSE IF AtLeast(95) THEN "RISK WARNING"
        ELSE "none"
ExactClasses == [row \in RiskRows |-> ExactClass(row)]

\* The rows the classification is defined for: numbers, with borrow shares
\* in the market and a collateral that is worth something.
Classifiable(row) ==
    /\ \A t \in {row.borrow_shares, row.total_borrow_assets, row.total_borrow_shares,
                 row.collateral, row.price, row.lltv} : parse_u128(t).ok
    /\ parse_u128(row.total_borrow_shares).value # Dec(0)
    /\ parse_u128(row.collateral).value # Dec(0)
    /\ parse_u128(row.price).value # Dec(0)

ZeroDenominatorSkipped ==
    \A i \in 1..Len(reports) :
        \A row \in reports[i].rows :
            (parse_u128(row.total_borrow_shares).value = Dec(0)
                 \/ parse_u128(row.price).value = Dec(0)) =>
                ~\E line \in reports[i].logs :
                    line.market_id = row.market_id /\ line.borrower = row.borrower

\* C15 (retry safety): when a committed chain whose processing ended in a
\* failure after its statements had all succeeded is handed over again and
\* processed from its first event, the processing does not fail, and once its
\* events are applied the markets, positions and market_states are those of a
\* single processing.
RetrySafety ==
    phase = "retry" =>
        /\ pc # "failed"
        /\ (tape = <<>> /\ pc # "borrow") => Core = snapshot

\* C16 (per-block risk evaluation): the rows check_positions reads for a block
\* are those of the ledger as the block's events left it; here for the block
\* before the one the last events of the committed chain are in.
PerBlockRisk ==
    [][\A i \in 1..Len(reports') :
          (i > Len(reports) /\ reports'[i].number = cursor - 1) =>
              reports'[i].rows = SelectPositions(blockStart.positions, blockStart.markets,
                                                 oracle_prices, reports'[i].number)]_vars

\* C17 (event order and filtering): the items yielded are the logs of the
\* chain that MORPHO_ADDRESS emitted and that decode, in the order of the
\* chain, each with the number of its block and its index in its receipt; the
\* other logs yield nothing.
EventOrderAndFiltering ==
    LET kept == SelectSeq(seen, LAMBDA l : l.log.address = MORPHO_ADDRESS
                                              /\ l.log.data.kind # "Transfer")
    IN  yielded = [i \in 1..Len(kept) |->
                      [number |-> kept[i].number, log_idx |-> kept[i].log_idx,
                       event |-> kept[i].log.data]]

\* C17 witness: a chain with a log of another contract, a log of Morpho that
\* does not decode, and two events of Morpho in different blocks.
EventOrderAndFilteringWitness ==
    /\ Len(yielded) >= 1
    /\ Len(seen) = MaxChainLogs
    /\ \E i \in 1..Len(seen) : seen[i].log.address # MORPHO_ADDRESS
    /\ \E i \in 1..Len(seen) :
           seen[i].log.address = MORPHO_ADDRESS /\ seen[i].log.data.kind = "Transfer"
    /\ yielded[Len(yielded)].number = MaxBlock

\* The deletions of a notification run before any event of its committed
\* chain is applied: while the committed chain of a reorg is applied, the
\* market_states and positions rows from the start of the reverted range on
\* are those its own events wrote, and none of these has been removed.
RollbackBeforeEvents ==
    /\ pc = "revert" => Core = blockStart
    /\ Reverting => appended = <<>> /\ reports = <<>> /\ cursor' = cursor
    /\ (pc = "commit" /\ notification.reverted # NoChain) =>
           LET start_block == notification.reverted[1]
               written == {appended[i] : i \in 1..Len(appended)}
           IN  /\ \A r \in market_states :
                      r.block_number >= start_block =>
                          <<r.market_id, r.block_number, r.log_index>> \in written
               /\ \A w \in written :
                      \E r \in market_states :
                          <<r.market_id, r.block_number, r.log_index>> = w
               /\ \A p \in positions :
                      p.last_updated >= start_block =>
                          created[<<p.market_id, p.borrower>>] >= notification.committed[1]

\* A notification is taken only when no other is being processed.
OneAtATime ==
    (notification' # notification /\ notification' # NoNotification) =>
        pc = "idle" /\ notification = NoNotification

\* C18 (revert precedes commit), as the code has it: the deletions come
\* first, a notification is taken only when no other is being processed, a
\* notification that carries a committed chain is left only by sending its
\* FinishedHeight, and one that only reverts is left without sending any.
RevertPrecedesCommit ==
    [][/\ RollbackBeforeEvents
       /\ OneAtATime
       /\ (notification # NoNotification /\ notification' = NoNotification) =>
              IF notification.committed # NoChain
              THEN acks' = Append(acks, notification.committed[2])
              ELSE acks' = acks /\ pc = "revert_oracle_prices"]_vars

\* C18 as stated: the same, but every notification, also one that only
\* reverts, is left only by sending a FinishedHeight.
RevertPrecedesCommitAcknowledged ==
    [][/\ RollbackBeforeEvents
       /\ OneAtATime
       /\ (notification # NoNotification /\ notification' = NoNotification) =>
              Len(acks') = Len(acks) + 1]_vars

\* C18 witness: the committed chain of a reorg has written a market state and
\* a position at or after the start of the range its revert deleted from.
RevertPrecedesCommitWitness ==
    /\ pc = "send"
    /\ notification.reverted # NoChain
    /\ acks # <<>>
    /\ appended # <<>>
    /\ positions # {}

\* C19 (rollback frame): the revert of a range that starts at block s leaves
\* every position last written in a block below s as it is, and every
\* market_states and oracle_prices row of a block below s; a position
\* inserted in a block below s is still there after the revert.
RollbackFrame ==
    [][Reverting =>
          LET start_block == notification.reverted[1]
          IN  /\ \A p \in positions :
                     p.last_updated - genesis < start_block => p \in positions'
              /\ \A r \in market_states :
                     r.block_number < start_block => r \in market_states'
              /\ \A r \in oracle_prices :
                     r.block_number < start_block => r \in oracle_prices'
              /\ \A k \in Keys :
                     (created[k] > 0 /\ created[k] < start_block) =>
                         PositionAt(positions', k[1], k[2]) # {}]_vars

\* C20 (decrease on an absent position): a Repay, WithdrawCollateral or
\* Liquidate for a pair without a row returns no error and inserts the row
\* with borrow_shares 0 and collateral 0, whatever the amounts of the event;
\* for a pair with a row it subtracts the amounts of the event from the row.
DecreaseOnAbsent ==
    [][\A k \in Keys :
          LET old == PositionAt(positions, k[1], k[2])
              new == PositionAt(positions', k[1], k[2])
              \* what the event of the step adds to the pair, by its amounts
              shares == SignedSub(ideal'[k].borrow_shares, ideal[k].borrow_shares)
              collateral == SignedSub(ideal'[k].collateral, ideal[k].collateral)
          IN  (pc = "commit" /\ ideal'[k] # ideal[k] /\ (shares.neg \/ collateral.neg)) =>
                  /\ pc' = "commit" /\ error' = "none"
                  /\ new # {}
                  /\ old = {} =>
                         \A q \in new : /\ q.borrow_shares = to_string(Dec(0))
                                        /\ q.collateral = to_string(Dec(0))
                  /\ \A p \in old : \A q \in new :
                         /\ IntegerPrefix(q.borrow_shares) =
                                SignedAdd(IntegerPrefix(p.borrow_shares), shares)
                         /\ IntegerPrefix(q.collateral) =
                                SignedAdd(IntegerPrefix(p.collateral), collateral)]_vars

\* C20 witness: a Repay or a Liquidate was applied to a pair without a row,
\* and the row is there with 0 and 0 while the events sum to a debt below 0.
DecreaseOnAbsentWitness ==
    \E p \in positions :
        /\ p.borrow_shares = to_string(Dec(0))
        /\ p.collateral = to_string(Dec(0))
        /\ ideal[<<p.market_id, p.borrower>>].borrow_shares.neg
        /\ pc = "send"

====
